---------------------------- MODULE Spec2Model ----------------------------
(***************************************************************************)
(* Article-Insight-Analyzer: the lexicon loader, the metrics engine        *)
(* (analyze_text), the syllable counter and the batch drivers of the three *)
(* scripts of the repository:                                              *)
(*   "analyze_articles"  src/analyze_articles.py  class ArticleAnalyzer    *)
(*   "main"              src/main.py              class TextAnalyzer       *)
(*   "text_analysis"     src/text_analysis.py     class TextAnalyzer       *)
(*                                                                         *)
(* A text, a word and a word-list line are sequences of characters, each   *)
(* character a one-character string; a byte >= 0x80 of a word-list file is *)
(* written "xHH".  Real-valued metrics are exact fractions [n, d] in       *)
(* lowest terms (Python floats are abstracted to the rationals they        *)
(* approximate).                                                           *)
(***************************************************************************)
EXTENDS Integers, Sequences, FiniteSets, TLC

(***************************************************************************)
(* Bounds of the model.                                                    *)
(***************************************************************************)
MaxWordLen == 4
MaxLexemes == 3
MaxRows == 3
MaxChunks == 2
MaxStopFiles == 2
NumWorkers == 2
NumDocs == 3
MaxCalls == 4

(***************************************************************************)
(* Characters and strings (str.lower, str.isalnum, \w, \s, \b).            *)
(***************************************************************************)
LowerChar(c) ==
    CASE c = "A" -> "a" [] c = "B" -> "b" [] c = "C" -> "c" [] c = "D" -> "d"
      [] c = "E" -> "e" [] c = "F" -> "f" [] c = "G" -> "g" [] c = "H" -> "h"
      [] c = "I" -> "i" [] c = "J" -> "j" [] c = "K" -> "k" [] c = "L" -> "l"
      [] c = "M" -> "m" [] c = "N" -> "n" [] c = "O" -> "o" [] c = "P" -> "p"
      [] c = "Q" -> "q" [] c = "R" -> "r" [] c = "S" -> "s" [] c = "T" -> "t"
      [] c = "U" -> "u" [] c = "V" -> "v" [] c = "W" -> "w" [] c = "X" -> "x"
      [] c = "Y" -> "y" [] c = "Z" -> "z" [] OTHER -> c

lower(s) == [i \in 1..Len(s) |-> LowerChar(s[i])]

LowerLetters ==
    {"a","b","c","d","e","f","g","h","i","j","k","l","m",
     "n","o","p","q","r","s","t","u","v","w","x","y","z"}

Digits == {"0","1","2","3","4","5","6","7","8","9"}

\* Non-ASCII letters a decoded word list can hold, named by code point
\* (e-acute, i-diaeresis, A-tilde); all are alphabetic.
AccentLetters == {"U+00E9", "U+00EF", "U+00C3"}

IsAlnumChar(c) == LowerChar(c) \in LowerLetters \cup Digits \cup AccentLetters

\* \w of Python's re on str: alphanumerics and the underscore.
IsWordChar(c) == IsAlnumChar(c) \/ c = "_"

\* \s of Python's re, and the characters str.strip and str.split remove.
IsSpace(c) == c \in {" ", "\n", "\t", "\r"}

\* str.isalnum: non-empty and every character alphanumeric.
isalnum(w) == Len(w) > 0 /\ \A i \in 1..Len(w) : IsAlnumChar(w[i])

endswith(w, suffix) ==
    /\ Len(w) >= Len(suffix)
    /\ SubSeq(w, Len(w) - Len(suffix) + 1, Len(w)) = suffix

\* s[i:i+len(p)] == p
MatchesAt(s, i, p) ==
    /\ i + Len(p) - 1 <= Len(s)
    /\ \A k \in 1..Len(p) : s[i + k - 1] = p[k]

startswith(w, prefix) == MatchesAt(w, 1, prefix)

RECURSIVE lstrip(_)
lstrip(s) ==
    IF Len(s) > 0 /\ IsSpace(s[1]) THEN lstrip(Tail(s)) ELSE s

RECURSIVE rstrip(_)
rstrip(s) ==
    IF Len(s) > 0 /\ IsSpace(s[Len(s)]) THEN rstrip(SubSeq(s, 1, Len(s) - 1)) ELSE s

\* str.strip()
strip(s) == rstrip(lstrip(s))

\* str.split(): the maximal runs of non-whitespace characters, in order.
RECURSIVE SplitFrom(_, _, _)
SplitFrom(s, i, cur) ==
    IF i > Len(s)
    THEN IF cur = << >> THEN << >> ELSE << cur >>
    ELSE IF IsSpace(s[i])
         THEN (IF cur = << >> THEN << >> ELSE << cur >>) \o SplitFrom(s, i + 1, << >>)
         ELSE SplitFrom(s, i + 1, Append(cur, s[i]))

split(s) == SplitFrom(s, 1, << >>)

RECURSIVE Flatten(_)
Flatten(ss) == IF ss = << >> THEN << >> ELSE Head(ss) \o Flatten(Tail(ss))

\* The number of indices of a sequence whose element satisfies a membership test.
CountIn(ws, S) == Cardinality({i \in 1..Len(ws) : ws[i] \in S})

RECURSIVE SumLen(_)
SumLen(ws) == IF ws = << >> THEN 0 ELSE Len(Head(ws)) + SumLen(Tail(ws))

(***************************************************************************)
(* The three scripts.                                                      *)
(***************************************************************************)
Impls == {"analyze_articles", "main", "text_analysis"}

(***************************************************************************)
(* _count_syllables.                                                       *)
(***************************************************************************)
vowels == {"a", "e", "i", "o", "u", "y"}

\* The loop over the characters: one per vowel that follows a non-vowel
\* (or starts the word).
VowelGroups(w) ==
    Cardinality({i \in 1..Len(w) :
                    /\ w[i] \in vowels
                    /\ (i = 1 \/ w[i - 1] \notin vowels)})

\* "if word.endswith('es') or word.endswith('ed'): word = word[:-2]"
StripSuffix(w) ==
    IF endswith(w, <<"e", "s">>) \/ endswith(w, <<"e", "d">>)
    THEN SubSeq(w, 1, Len(w) - 2)
    ELSE w

Floor1(count) == IF count = 0 THEN 1 ELSE count

\* ArticleAnalyzer._count_syllables and main.py's TextAnalyzer._count_syllables.
count_syllables_modified(word) ==
    LET w == StripSuffix(lower(word))
        groups == VowelGroups(w)
        count == IF endswith(w, <<"e">>) THEN groups - 1 ELSE groups
    IN  Floor1(count)

\* text_analysis.py's TextAnalyzer._count_syllables: no suffix is stripped.
\* word[0] of an empty word raises IndexError: the operator is applied to
\* non-empty words only (every clean token is non-empty).
count_syllables_legacy(word) ==
    LET w == lower(word)
        groups == VowelGroups(w)
        count == IF endswith(w, <<"e">>) THEN groups - 1 ELSE groups
    IN  Floor1(count)

count_syllables(impl, word) ==
    IF impl = "text_analysis"
    THEN count_syllables_legacy(word)
    ELSE count_syllables_modified(word)

(***************************************************************************)
(* Exact arithmetic for the real-valued metrics.                           *)
(***************************************************************************)
Abs(x) == IF x < 0 THEN -x ELSE x

RECURSIVE GCD(_, _)
GCD(a, b) == IF b = 0 THEN a ELSE GCD(b, a % b)

\* n/d, d > 0, in lowest terms: equal numbers are equal records.
Frac(n, d) ==
    LET g == GCD(Abs(n), d)
    IN  [n |-> n \div g, d |-> d \div g]

Int2Frac(k) == [n |-> k, d |-> 1]

FAdd(x, y) == Frac(x.n * y.d + y.n * x.d, x.d * y.d)

FMul(x, y) == Frac(x.n * y.n, x.d * y.d)

FLeq(x, y) == x.n * y.d <= y.n * x.d

\* The smoothing constant 0.000001 of the polarity and subjectivity
\* denominators is 1/EpsilonInverse.
EpsilonInverse == 1000000

\* The quotient without the epsilon: undefined (0/0, ZeroDivisionError) for a
\* zero denominator.
DivEps_NoEpsilon(num, den) ==
    IF den = 0 THEN [n |-> 0, d |-> 0] ELSE Frac(num, den)

\* num / (den + 0.000001)
DivEps(num, den) == Frac(num * EpsilonInverse, den * EpsilonInverse + 1)

(***************************************************************************)
(* Tokenization.  sent_tokenize and word_tokenize are NLTK's (Punkt and    *)
(* Treebank); they are modelled on texts made of words, whitespace and the *)
(* punctuation . , ! ? - _ with no abbreviations, initials, numbers,       *)
(* quotes or contractions, where Punkt breaks after each . ! ? that is     *)
(* followed by whitespace and another token, and Treebank splits off       *)
(* commas, ! and ?, and the period that ends a sentence.  Both raise       *)
(* LookupError when the punkt data is not installed (nltk = "missing").    *)
(***************************************************************************)
SentEndChars == {".", "!", "?"}

\* Is there a non-whitespace character at or after position i?
HasTokenFrom(s, i) == \E j \in i..Len(s) : ~IsSpace(s[j])

RECURSIVE SentFrom(_, _, _)
SentFrom(s, i, cur) ==
    IF i > Len(s)
    THEN IF strip(cur) = << >> THEN << >> ELSE << strip(cur) >>
    ELSE IF /\ s[i] \in SentEndChars
            /\ i < Len(s)
            /\ IsSpace(s[i + 1])
            /\ HasTokenFrom(s, i + 1)
            /\ strip(Append(cur, s[i])) # << >>
         THEN << strip(Append(cur, s[i])) >> \o SentFrom(s, i + 1, << >>)
         ELSE SentFrom(s, i + 1, Append(cur, s[i]))

\* nltk.tokenize.sent_tokenize on an installed punkt model.
sent_tokenize(text) == SentFrom(text, 1, << >>)

\* Treebank on one whitespace-free chunk: commas (not before a digit), ! and ?
\* become tokens of their own.
RECURSIVE ChunkTokens(_, _, _)
ChunkTokens(c, i, cur) ==
    IF i > Len(c)
    THEN IF cur = << >> THEN << >> ELSE << cur >>
    ELSE IF \/ c[i] \in {"!", "?"}
            \/ (c[i] = "," /\ (i = Len(c) \/ c[i + 1] \notin Digits))
         THEN (IF cur = << >> THEN << >> ELSE << cur >>)
              \o << << c[i] >> >> \o ChunkTokens(c, i + 1, << >>)
         ELSE ChunkTokens(c, i + 1, Append(cur, c[i]))

RECURSIVE TokensOfChunks(_)
TokensOfChunks(cs) ==
    IF cs = << >> THEN << >>
    ELSE ChunkTokens(Head(cs), 1, << >>) \o TokensOfChunks(Tail(cs))

\* Treebank on one sentence: the period that ends it is a token of its own.
TreebankTokens(sent) ==
    LET n == Len(sent)
        final == n >= 2 /\ sent[n] = "." /\ sent[n - 1] # "."
    IN  IF final
        THEN TokensOfChunks(split(SubSeq(sent, 1, n - 1))) \o << << "." >> >>
        ELSE TokensOfChunks(split(sent))

RECURSIVE TokensOfSents(_)
TokensOfSents(ss) ==
    IF ss = << >> THEN << >>
    ELSE TreebankTokens(Head(ss)) \o TokensOfSents(Tail(ss))

\* nltk.tokenize.word_tokenize on an installed punkt model.
word_tokenize(text) == TokensOfSents(sent_tokenize(text))

\* re.sub(r'[^\w\s]', ' ', text.lower())
cleaned_text(text) ==
    [i \in 1..Len(text) |->
        IF IsWordChar(text[i]) \/ IsSpace(text[i]) THEN LowerChar(text[i]) ELSE " "]

\* re.split(r'[.!?]+', text): the maximal runs without . ! ? (empty ones too).
RECURSIVE ReSplitFrom(_, _, _)
ReSplitFrom(s, i, cur) ==
    IF i > Len(s) THEN << cur >>
    ELSE IF s[i] \in SentEndChars
         THEN IF i > 1 /\ s[i - 1] \in SentEndChars
              THEN ReSplitFrom(s, i + 1, cur)
              ELSE << cur >> \o ReSplitFrom(s, i + 1, << >>)
         ELSE ReSplitFrom(s, i + 1, Append(cur, s[i]))

\* "[s.strip() for s in re.split(r'[.!?]+', text) if s.strip()]"
basic_sentences(text) ==
    LET parts == ReSplitFrom(text, 1, << >>)
    IN  SelectSeq([i \in 1..Len(parts) |-> strip(parts[i])], LAMBDA p : p # << >>)

\* "[w.strip().lower() for w in text.split() if w.strip()]"
basic_words(text) ==
    LET ws == split(text)
    IN  [i \in 1..Len(ws) |-> lower(ws[i])]

(***************************************************************************)
(* The metric record.                                                      *)
(***************************************************************************)
Fields ==
    {"POSITIVE SCORE", "NEGATIVE SCORE", "POLARITY SCORE", "SUBJECTIVITY SCORE",
     "AVG SENTENCE LENGTH", "PERCENTAGE OF COMPLEX WORDS", "FOG INDEX",
     "AVG NUMBER OF WORDS PER SENTENCE", "COMPLEX WORD COUNT", "WORD COUNT",
     "SYLLABLE PER WORD", "PERSONAL PRONOUNS", "AVG WORD LENGTH"}

Zero == Int2Frac(0)

\* _get_empty_metrics
get_empty_metrics == [f \in Fields |-> Zero]

\* What a call of analyze_text gives its caller: a metric record, Python's
\* None, or an exception.
Returned(rec) == [kind |-> "record", rec |-> rec]
ReturnedNone == [kind |-> "None"]
Raised == [kind |-> "raise"]

(***************************************************************************)
(* Personal pronouns:                                                      *)
(*   re.findall(r'\b(I|we|my|ours|us)\b(?!\s+(?:states|state))', text, re.I) *)
(* and, in text_analysis.py, r'\b(I|we|my|ours|us)\b'.                     *)
(***************************************************************************)
Pronouns ==
    { <<"i">>, <<"w","e">>, <<"m","y">>, <<"o","u","r","s">>, <<"u","s">> }

\* \b between positions i-1 and i of s (1 <= i <= Len(s) + 1).
WordBoundary(s, i) ==
    LET before == i > 1 /\ IsWordChar(s[i - 1])
        after == i <= Len(s) /\ IsWordChar(s[i])
    IN  before # after

\* (?!\s+(?:states|state)) at position j: not (one or more whitespace
\* characters, then "states" or "state", case-insensitively).
LookaheadAllows(s, j) ==
    ~ \E k \in (j + 1)..(Len(s) + 1) :
          /\ \A m \in j..(k - 1) : IsSpace(s[m])
          /\ \/ MatchesAt(lower(s), k, <<"s","t","a","t","e","s">>)
             \/ MatchesAt(lower(s), k, <<"s","t","a","t","e">>)

\* The start positions of the matches of \b(I|we|my|ours|us)\b: no two
\* overlap, as each is a whole maximal run of word characters.
PronounMatches(s) ==
    {i \in 1..Len(s) :
        \E p \in Pronouns :
            /\ WordBoundary(s, i)
            /\ MatchesAt(lower(s), i, p)
            /\ WordBoundary(s, i + Len(p))}

PronounEnd(s, i) ==
    i + Len(CHOOSE p \in Pronouns :
                MatchesAt(lower(s), i, p) /\ WordBoundary(s, i + Len(p)))

\* analyze_articles.py and main.py: with the lookahead.
personal_pronouns_lookahead(text) ==
    Cardinality({i \in PronounMatches(text) : LookaheadAllows(text, PronounEnd(text, i))})

\* text_analysis.py: without it.
personal_pronouns_plain(text) == Cardinality(PronounMatches(text))

personal_pronouns(impl, text) ==
    IF impl = "text_analysis"
    THEN personal_pronouns_plain(text)
    ELSE personal_pronouns_lookahead(text)

(***************************************************************************)
(* analyze_text.  lex is the analyzer's three word sets; nltk says whether *)
(* the punkt data is installed.                                            *)
(***************************************************************************)
RECURSIVE SumSyllables(_, _)
SumSyllables(impl, ws) ==
    IF ws = << >> THEN 0
    ELSE count_syllables(impl, Head(ws)) + SumSyllables(impl, Tail(ws))

complex_words(impl, words) ==
    SelectSeq(words, LAMBDA w : count_syllables(impl, w) > 2)

\* "[word for word in words if word not in self.stop_words and word.isalnum()]"
filter_words(tokens, stop_words) ==
    SelectSeq(tokens, LAMBDA w : w \notin stop_words /\ isalnum(w))

\* "sum(1 for word in words if word in self.positive_words)"
positive_score(words, lex) == CountIn(words, lex.positive_words)

\* The count of negative words, before any sign is applied.
negative_count(words, lex) == CountIn(words, lex.negative_words)

\* analyze_articles.py and main.py: "negative_score = sum(...) * -1", and
\* "polarity_score = (positive_score + negative_score) / (total_sentiment + 0.000001)".
polarity_numerator_signed(words, lex) ==
    LET negative_score == negative_count(words, lex) * (-1)
    IN  positive_score(words, lex) + negative_score

\* text_analysis.py: "(positive_score - negative_score) / ..."
polarity_numerator_plain(words, lex) ==
    positive_score(words, lex) - negative_count(words, lex)

polarity_numerator(impl, words, lex) ==
    IF impl = "text_analysis"
    THEN polarity_numerator_plain(words, lex)
    ELSE polarity_numerator_signed(words, lex)

\* The record of analyze_articles.py (lines 62-114) and main.py (95-130) from
\* the sentences, the raw tokens and the clean words.
metrics_record(impl, text, sentences, raw_words, words, lex) ==
    LET pos == positive_score(words, lex)
        negative_score == negative_count(words, lex) * (-1)
        total_sentiment == pos + Abs(negative_score)
        avg_sentence_length ==
            IF Len(sentences) > 0 THEN Frac(Len(raw_words), Len(sentences)) ELSE Zero
        complex == complex_words(impl, words)
        percent_complex_words ==
            IF Len(words) > 0 THEN Frac(Len(complex), Len(words)) ELSE Zero
    IN  [f \in Fields |->
          CASE f = "POSITIVE SCORE" -> Int2Frac(pos)
            [] f = "NEGATIVE SCORE" -> Int2Frac(Abs(negative_score))
            [] f = "POLARITY SCORE" ->
                   DivEps(polarity_numerator(impl, words, lex), total_sentiment)
            [] f = "SUBJECTIVITY SCORE" -> DivEps(total_sentiment, Len(words))
            [] f = "AVG SENTENCE LENGTH" -> avg_sentence_length
            [] f = "PERCENTAGE OF COMPLEX WORDS" -> percent_complex_words
            [] f = "FOG INDEX" ->
                   FMul(Frac(2, 5), FAdd(avg_sentence_length, percent_complex_words))
            [] f = "AVG NUMBER OF WORDS PER SENTENCE" -> avg_sentence_length
            [] f = "COMPLEX WORD COUNT" -> Int2Frac(Len(complex))
            [] f = "WORD COUNT" -> Int2Frac(Len(words))
            [] f = "SYLLABLE PER WORD" ->
                   IF Len(words) > 0
                   THEN Frac(SumSyllables(impl, words), Len(words)) ELSE Zero
            [] f = "PERSONAL PRONOUNS" -> Int2Frac(personal_pronouns(impl, text))
            [] f = "AVG WORD LENGTH" ->
                   IF Len(words) > 0 THEN Frac(SumLen(words), Len(words)) ELSE Zero]

\* What the first half of analyze_text (the sentences, the raw tokens and
\* the filtered words) hands to the second: either the call has already ended
\* (early) with a result, or the three token streams.
Ended(res) == [early |-> TRUE, result |-> res]
Tokens(sentences, raw_words, words) ==
    [early |-> FALSE, sentences |-> sentences, raw_words |-> raw_words, words |-> words]

\* ArticleAnalyzer.analyze_text, lines 45-60: None for an empty text; no try,
\* so a LookupError of the tokenizers leaves the method.
tokenize_articles(text, stop, nltk) ==
    IF text = << >> THEN Ended(ReturnedNone)
    ELSE IF nltk = "missing" THEN Ended(Raised)
    ELSE Tokens(sent_tokenize(text), word_tokenize(text),
                filter_words(word_tokenize(cleaned_text(text)), stop))

\* main.py's TextAnalyzer.analyze_text, lines 79-93: one try around
\* everything, the empty record for an empty text, for an exception and for
\* an empty list of clean words.
tokenize_main(text, stop, nltk) ==
    IF text = << >> THEN Ended(Returned(get_empty_metrics))
    ELSE IF nltk = "missing" THEN Ended(Returned(get_empty_metrics))
    ELSE LET words == filter_words(word_tokenize(cleaned_text(text)), stop)
         IN  IF words = << >> THEN Ended(Returned(get_empty_metrics))
             ELSE Tokens(sent_tokenize(text), word_tokenize(text), words)

\* text_analysis.py's TextAnalyzer.analyze_text, lines 90-112: a try around
\* the two NLTK calls only, with the basic splitting as its fallback; the
\* text is lower-cased but its punctuation is not replaced.
tokenize_legacy(text, stop, nltk) ==
    IF text = << >> THEN Ended(Returned(get_empty_metrics))
    ELSE LET sentences == IF nltk = "ok" THEN sent_tokenize(text)
                          ELSE basic_sentences(text)
             tokens == IF nltk = "ok" THEN word_tokenize(lower(text))
                       ELSE basic_words(text)
             words == SelectSeq(tokens, LAMBDA w : isalnum(w) /\ w \notin stop)
         IN  IF words = << >> THEN Ended(Returned(get_empty_metrics))
             ELSE Tokens(sentences, tokens, words)

tokenize_stage(impl, text, stop, nltk) ==
    CASE impl = "analyze_articles" -> tokenize_articles(text, stop, nltk)
      [] impl = "main" -> tokenize_main(text, stop, nltk)
      [] impl = "text_analysis" -> tokenize_legacy(text, stop, nltk)

\* text_analysis.py, lines 115-144: the sentence length is the number of
\* clean words over max(len(sentences), 1).
metrics_record_legacy(text, tok, lex) ==
    LET words == tok.words
        sents == IF Len(tok.sentences) > 1 THEN Len(tok.sentences) ELSE 1
        avg_sentence_length == Frac(Len(words), sents)
        percent_complex_words ==
            Frac(Len(complex_words("text_analysis", words)), Len(words))
    IN  [metrics_record("text_analysis", text, tok.sentences, tok.raw_words, words, lex)
            EXCEPT !["AVG SENTENCE LENGTH"] = avg_sentence_length,
                   !["AVG NUMBER OF WORDS PER SENTENCE"] = avg_sentence_length,
                   !["FOG INDEX"] =
                       FMul(Frac(2, 5), FAdd(avg_sentence_length, percent_complex_words))]

\* The second half of analyze_text: the record from the token streams.
score_stage(impl, text, tok, lex) ==
    IF tok.early THEN tok.result
    ELSE IF impl = "text_analysis"
         THEN Returned(metrics_record_legacy(text, tok, lex))
         ELSE Returned(metrics_record(impl, text, tok.sentences, tok.raw_words,
                                      tok.words, lex))

analyze_text(impl, text, lex, nltk) ==
    score_stage(impl, text, tokenize_stage(impl, text, lex.stop_words, nltk), lex)

(***************************************************************************)
(* The word-list loader.  A word-list file is absent ("missing": open      *)
(* raises FileNotFoundError), present but not openable ("unreadable":      *)
(* open raises another OSError), or a sequence of chunks, the units in     *)
(* which the text reader reads and decodes it; a chunk is a sequence of    *)
(* lines and a line a sequence of bytes.  A decoding error in a chunk is   *)
(* raised when the reader reaches that chunk: the lines of the chunks      *)
(* before it have been yielded.                                            *)
(***************************************************************************)
encodings == << "utf-8", "latin-1", "cp1252", "iso-8859-1" >>

HighBytes == {"xC3", "xA9", "xEF"}

Decoded(str) == [ok |-> TRUE, str |-> str]
UnicodeDecodeError == [ok |-> FALSE, str |-> << >>]

\* UTF-8: an ASCII byte is itself, C3 A9 is e-acute, any other high byte
\* here is invalid (a lone C3, a lone continuation byte A9, EF not followed
\* by two continuation bytes).
RECURSIVE DecodeUtf8(_)
DecodeUtf8(bytes) ==
    IF bytes = << >> THEN Decoded(<< >>)
    ELSE IF Head(bytes) \notin HighBytes
         THEN LET rest == DecodeUtf8(Tail(bytes))
              IN  IF rest.ok THEN Decoded(<< Head(bytes) >> \o rest.str)
                  ELSE UnicodeDecodeError
    ELSE IF Head(bytes) = "xC3" /\ Len(bytes) >= 2 /\ bytes[2] = "xA9"
         THEN LET rest == DecodeUtf8(SubSeq(bytes, 3, Len(bytes)))
              IN  IF rest.ok THEN Decoded(<< "U+00E9" >> \o rest.str)
                  ELSE UnicodeDecodeError
    ELSE UnicodeDecodeError

\* Latin-1 (ISO-8859-1) and, for these bytes, Windows-1252: one character
\* per byte, never an error.
Latin1Char(b) ==
    CASE b = "xC3" -> "U+00C3" [] b = "xA9" -> "U+00A9" [] b = "xEF" -> "U+00EF"
      [] OTHER -> b

DecodeLine(bytes, encoding) ==
    IF encoding = "utf-8" THEN DecodeUtf8(bytes)
    ELSE Decoded([i \in 1..Len(bytes) |-> Latin1Char(bytes[i])])

ChunkDecodes(chunk, encoding) ==
    \A i \in 1..Len(chunk) : DecodeLine(chunk[i], encoding).ok

\* "for line in f" under one encoding: the lines yielded, and whether the
\* iteration ended normally (ok) or with UnicodeDecodeError.
RECURSIVE ReadLines(_, _)
ReadLines(chunks, encoding) ==
    IF chunks = << >> THEN [ok |-> TRUE, lines |-> << >>]
    ELSE IF ~ChunkDecodes(Head(chunks), encoding) THEN [ok |-> FALSE, lines |-> << >>]
    ELSE LET rest == ReadLines(Tail(chunks), encoding)
             here == [i \in 1..Len(Head(chunks)) |->
                         DecodeLine(Head(chunks)[i], encoding).str]
         IN  [ok |-> rest.ok, lines |-> here \o rest.lines]

\* "line.strip() for line in f if line.strip() and not line.startswith(';')"
KeptWords(lines) ==
    {strip(lines[i]) : i \in {k \in 1..Len(lines) :
                                /\ strip(lines[k]) # << >>
                                /\ ~startswith(lines[k], << ";" >>)}}

\* "line.strip() for line in f if line.strip()" (text_analysis.py's
\* _load_stop_words).
KeptLines(lines) ==
    {strip(lines[i]) : i \in {k \in 1..Len(lines) : strip(lines[k]) # << >>}}

Loaded(words) == [raised |-> FALSE, words |-> words]
LoadRaised == [raised |-> TRUE, words |-> {}]

\* _load_words of analyze_articles.py and main.py: "words.update(...)" into
\* one set across the attempts; only UnicodeDecodeError is caught.
RECURSIVE load_words_update(_, _, _)
load_words_update(file, encs, words) ==
    IF encs = << >> THEN Loaded(words)
    ELSE IF file.state # "file" THEN LoadRaised
    ELSE LET r == ReadLines(file.chunks, Head(encs))
             updated == words \cup KeptWords(r.lines)
         IN  IF r.ok THEN Loaded(updated)
             ELSE load_words_update(file, Tail(encs), updated)

\* _load_words of text_analysis.py: "return set(...)" per attempt; any other
\* exception gives the empty set.
RECURSIVE load_words_return(_, _)
load_words_return(file, encs) ==
    IF encs = << >> THEN Loaded({})
    ELSE IF file.state # "file" THEN Loaded({})
    ELSE LET r == ReadLines(file.chunks, Head(encs))
         IN  IF r.ok THEN Loaded(KeptWords(r.lines))
             ELSE load_words_return(file, Tail(encs))

load_words(impl, file) ==
    IF impl = "text_analysis"
    THEN load_words_return(file, encodings)
    ELSE load_words_update(file, encodings, {})

\* One file of the StopWords directory in text_analysis.py's
\* _load_stop_words: "stop_words.update(...)" per attempt, every line kept
\* that is not blank, any other exception ends the file.
RECURSIVE load_stop_file_legacy(_, _, _)
load_stop_file_legacy(file, encs, stop) ==
    IF encs = << >> THEN Loaded(stop)
    ELSE IF file.state # "file" THEN Loaded(stop)
    ELSE LET r == ReadLines(file.chunks, Head(encs))
             updated == stop \cup KeptLines(r.lines)
         IN  IF r.ok THEN Loaded(updated)
             ELSE load_stop_file_legacy(file, Tail(encs), updated)

\* One entry of os.listdir('StopWords') in _load_stop_words: a name that
\* does not end in '.txt' is passed over.
load_stop_entry(impl, entry, stop) ==
    IF ~entry.txt THEN Loaded(stop)
    ELSE IF impl = "text_analysis"
    THEN load_stop_file_legacy(entry.file, encodings, stop)
    ELSE LET r == load_words(impl, entry.file)
         IN  IF r.raised THEN LoadRaised ELSE Loaded(stop \cup r.words)

(***************************************************************************)
(* The inputs the model draws from.                                        *)
(***************************************************************************)
\* Words with the separator that follows them; a generated text is the
\* concatenation of at most MaxLexemes of them.
Lexemes ==
    { <<"I"," ">>,
      <<"w","e"," ">>,
      <<"U","S"," ">>,
      <<"o","u","r","s"," ">>,
      <<"o","u","r","s","e","l","v","e","s","."," ">>,
      <<"m","y"," ">>,
      <<"s","t","a","t","e","s"," ">>,
      <<"s","t","a","t","e","d",","," ">>,
      <<"g","o","o","d"," ">>,
      <<"b","a","d","."," ">> }

RECURSIVE LexemeSeqs(_)
LexemeSeqs(n) ==
    IF n = 0 THEN { << >> }
    ELSE LET shorter == LexemeSeqs(n - 1)
         IN  shorter \cup {Append(q, x) : q \in {r \in shorter : Len(r) = n - 1},
                                               x \in Lexemes}

GeneratedTexts == {Flatten(q) : q \in LexemeSeqs(MaxLexemes)}

ExampleText ==
    <<"J","o","h","n"," ","i","s"," ","g","o","o","d","."," ","M","a","r","y"," ","i","s"," ","b","a","d"," ","a","n","d"," ","t","e","r","r","i","b","l","e",".">>

ThinkText == <<"I"," ","t","h","i","n","k"," ","w","e"," ","s","h","o","u","l","d"," ","g","o">>

UsStatesText == <<"u","s"," ","s","t","a","t","e","s"," ","a","r","e"," ","m","a","n","y">>

UnitedStatesText == <<"T","h","e"," ","U","n","i","t","e","d"," ","S","t","a","t","e","s">>

HyphenText == <<"w","e","l","l","-","k","n","o","w","n"," ","f","a","c","t",".">>

BlankText == << " " >>

NamedTexts ==
    {ExampleText, ThinkText, UsStatesText, UnitedStatesText, HyphenText, BlankText}

Texts == GeneratedTexts \cup NamedTexts

Lexicon(pos, neg, stop) ==
    [positive_words |-> pos, negative_words |-> neg, stop_words |-> stop]

\* positive={good}, negative={bad, terrible}, stop words={is, and}
ExampleLexicon ==
    Lexicon({<<"g","o","o","d">>}, {<<"b","a","d">>, <<"t","e","r","r","i","b","l","e">>}, {<<"i","s">>, <<"a","n","d">>})

\* A word in both sentiment lists.
OverlapLexicon ==
    Lexicon({<<"g","o","o","d">>, <<"w","e">>}, {<<"g","o","o","d">>, <<"b","a","d">>}, {})

\* Every word of the generated texts is a stop word.
StopAllLexicon ==
    Lexicon({<<"g","o","o","d">>}, {<<"b","a","d">>},
            {<<"i">>, <<"w","e">>, <<"u","s">>, <<"o","u","r","s">>, <<"o","u","r","s","e","l","v","e","s">>, <<"m","y">>,
             <<"s","t","a","t","e","s">>, <<"s","t","a","t","e","d">>, <<"g","o","o","d">>, <<"b","a","d">>})

Lexicons == {ExampleLexicon, OverlapLexicon, StopAllLexicon}

\* The words the syllable counter is applied to: every non-empty word of at
\* most MaxWordLen letters over a small alphabet, and the named ones.
SyllableAlphabet == {"a", "e", "b", "s", "d"}

RECURSIVE WordsUpTo(_)
WordsUpTo(n) ==
    IF n = 0 THEN { << >> }
    ELSE LET shorter == WordsUpTo(n - 1)
         IN  shorter \cup {Append(q, c) : q \in {r \in shorter : Len(r) = n - 1},
                                               c \in SyllableAlphabet}

word_the == <<"t","h","e">>
word_analyze == <<"a","n","a","l","y","z","e">>
word_boxes == <<"b","o","x","e","s">>

SyllableWords ==
    (WordsUpTo(MaxWordLen) \ { << >> }) \cup {word_the, word_analyze, word_boxes, <<"J","u","m","p","e","d">>}

\* Chunks of word-list files: plain words; a comment, a blank line and a
\* padded word; a word with a valid UTF-8 sequence (C3 A9); a Latin-1 word
\* that is invalid UTF-8 (EF); an upper-case entry.
ChunkPlain == << <<"g","o","o","d">>, <<"b","a","d">> >>
ChunkComment == << <<";","n","o","t","e">>, << >>, <<" ","a","n","d"," ">> >>
ChunkUtf8 == << <<"c","a","f","xC3","xA9">> >>
ChunkLatin1 == << <<"n","a","xEF","v","e">> >>
ChunkUpper == << <<"T","H","E">> >>

WordListChunks == {ChunkPlain, ChunkComment, ChunkUtf8, ChunkLatin1, ChunkUpper}

RECURSIVE ChunkSeqs(_)
ChunkSeqs(n) ==
    IF n = 0 THEN { << >> }
    ELSE LET shorter == ChunkSeqs(n - 1)
         IN  shorter \cup {Append(q, c) : q \in {r \in shorter : Len(r) = n - 1},
                                               c \in WordListChunks}

FileOf(chunks) == [state |-> "file", chunks |-> chunks]
MissingFile == [state |-> "missing", chunks |-> << >>]
UnreadableFile == [state |-> "unreadable", chunks |-> << >>]

WordListFiles ==
    {FileOf(q) : q \in ChunkSeqs(MaxChunks)} \cup {MissingFile, UnreadableFile}

NegativeFiles ==
    {MissingFile, FileOf(<< ChunkPlain >>), FileOf(<< ChunkUtf8, ChunkLatin1 >>)}

\* Entries of the StopWords directory: a name (ending in .txt or not) and
\* the file behind it.
StopEntry(txt, file) == [txt |-> txt, file |-> file]

StopEntries ==
    { StopEntry(TRUE, FileOf(<< ChunkPlain >>)),
      StopEntry(TRUE, FileOf(<< ChunkComment, ChunkUpper >>)),
      StopEntry(TRUE, FileOf(<< ChunkUtf8, ChunkLatin1 >>)),
      StopEntry(TRUE, UnreadableFile),
      StopEntry(FALSE, FileOf(<< ChunkPlain >>)) }


RECURSIVE StopDirs(_)
StopDirs(n) ==
    IF n = 0 THEN { << >> }
    ELSE LET shorter == StopDirs(n - 1)
         IN  shorter \cup {Append(q, e) : q \in {r \in shorter : Len(r) = n - 1},
                                               e \in StopEntries}

(***************************************************************************)
(* State.                                                                  *)
(***************************************************************************)
VARIABLES
    impl,            \* the script whose analyzer class is in use
    nltk,            \* "ok" or "missing": whether the punkt data is installed
    positive_words,  \* self.positive_words
    negative_words,  \* self.negative_words
    stop_words,      \* self.stop_words
    constructed,     \* the three sets as __init__ left them
    pc,              \* where the run is
    text,            \* the argument of a single analyze_text call
    result,          \* what that call gave its caller
    word,            \* the argument of a single _count_syllables call
    syllables,       \* its return value
    files,           \* the word-list files: positive, negative, the StopWords directory
    stop_index,      \* the entry of the directory listing _load_stop_words is at
    driver,          \* the batch loop that runs
    input_df,        \* the rows of Input.xlsx
    articles,        \* articles/<URL_ID>.txt for each row
    web,             \* what extract_article returns for each row's URL
    row,             \* the row the loop is at
    results,         \* the list "results"
    output,          \* the rows written to output.xlsx
    docs,            \* the documents handed to concurrent callers
    workers,         \* each caller's position inside analyze_text
    returned,        \* every result returned so far, per document
    responses,       \* what the site answers to each request for the URL
    fetched,         \* the user agents extract_article has sent a request with
    extracted        \* what extract_article returned

analyzer == << impl, nltk, positive_words, negative_words, stop_words, constructed >>
call == << text, result >>
syllable == << word, syllables >>
loader == << files, stop_index >>
fetch == << responses, fetched, extracted >>
batch == << driver, input_df, articles, web, row, results, output, fetch >>
engine == << docs, workers, returned >>

vars == << analyzer, pc, call, syllable, loader, batch, engine >>

lexicon == Lexicon(positive_words, negative_words, stop_words)

NoResult == [kind |-> "pending"]
NoOutput == << "not written" >>

\* The parts of the state a run does not use.
NoCall == text = << >> /\ result = NoResult
NoSyllable == word = << >> /\ syllables = 0
NoLoader == files = [positive |-> MissingFile, negative |-> MissingFile, stop |-> << >>]
            /\ stop_index = 0
NoFetch == responses = << >> /\ fetched = << >> /\ extracted = NoOutput
NoBatch == /\ driver = "none" /\ input_df = << >> /\ articles = << >> /\ web = << >>
           /\ row = 0 /\ results = << >> /\ output = NoOutput
           /\ NoFetch
NoEngine == docs = << >> /\ workers = << >> /\ returned = << >>

\* An analyzer as __init__ leaves it with the word sets of lex.
Constructed(lex) ==
    /\ positive_words = lex.positive_words
    /\ negative_words = lex.negative_words
    /\ stop_words = lex.stop_words
    /\ constructed = lex

(***************************************************************************)
(* A single call of _count_syllables.                                      *)
(***************************************************************************)
InitSyllable ==
    /\ impl \in Impls
    /\ nltk = "ok"
    /\ Constructed(ExampleLexicon)
    /\ pc = "count"
    /\ word \in SyllableWords
    /\ syllables = 0
    /\ NoCall /\ NoLoader /\ NoBatch /\ NoEngine

CountSyllables ==
    /\ pc = "count"
    /\ syllables' = count_syllables(impl, word)
    /\ pc' = "counted"
    /\ UNCHANGED << analyzer, call, word, loader, batch, engine >>

NextSyllable == CountSyllables

SpecSyllable == InitSyllable /\ [][NextSyllable]_vars

(***************************************************************************)
(* A single call of analyze_text on a constructed analyzer.                *)
(***************************************************************************)
InitText ==
    /\ impl \in Impls
    /\ nltk \in {"ok", "missing"}
    /\ \E lex \in Lexicons : Constructed(lex)
    /\ pc = "call"
    /\ text \in Texts
    /\ result = NoResult
    /\ NoSyllable /\ NoLoader /\ NoBatch /\ NoEngine

AnalyzeText ==
    /\ pc = "call"
    /\ result' = analyze_text(impl, text, lexicon, nltk)
    /\ pc' = "returned"
    /\ UNCHANGED << analyzer, text, syllable, loader, batch, engine >>

NextText == AnalyzeText

SpecText == InitText /\ [][NextText]_vars

(***************************************************************************)
(* Construction of an analyzer: __init__ loads the positive list, the      *)
(* negative list and the StopWords directory, entry by entry.  An          *)
(* exception that leaves a loader leaves __init__ (pc = "raised").         *)
(***************************************************************************)
InitLoad ==
    /\ impl \in Impls
    /\ nltk = "ok"
    /\ positive_words = {} /\ negative_words = {} /\ stop_words = {}
    /\ constructed = Lexicon({}, {}, {})
    /\ pc = "load_positive"
    /\ \E p \in WordListFiles, n \in NegativeFiles, d \in StopDirs(MaxStopFiles) :
           files = [positive |-> p, negative |-> n, stop |-> d]
    /\ stop_index = 0
    /\ NoCall /\ NoSyllable /\ NoBatch /\ NoEngine

\* self.positive_words = self._load_words('MasterDictionary/positive-words.txt')
LoadPositive ==
    /\ pc = "load_positive"
    /\ LET r == load_words(impl, files.positive)
       IN  IF r.raised
           THEN pc' = "raised" /\ UNCHANGED positive_words
           ELSE pc' = "load_negative" /\ positive_words' = r.words
    /\ UNCHANGED << impl, nltk, negative_words, stop_words, constructed,
                    call, syllable, loader, batch, engine >>

\* self.negative_words = self._load_words('MasterDictionary/negative-words.txt')
LoadNegative ==
    /\ pc = "load_negative"
    /\ LET r == load_words(impl, files.negative)
       IN  IF r.raised
           THEN pc' = "raised" /\ UNCHANGED << negative_words, stop_index >>
           ELSE pc' = "load_stop" /\ negative_words' = r.words /\ stop_index' = 1
    /\ UNCHANGED << impl, nltk, positive_words, stop_words, constructed,
                    call, syllable, files, batch, engine >>

\* One iteration of "for file in os.listdir('StopWords')".
LoadStopEntry ==
    /\ pc = "load_stop"
    /\ stop_index <= Len(files.stop)
    /\ LET r == load_stop_entry(impl, files.stop[stop_index], stop_words)
       IN  IF r.raised
           THEN pc' = "raised" /\ UNCHANGED << stop_words, stop_index >>
           ELSE /\ stop_words' = r.words
                /\ stop_index' = stop_index + 1
                /\ UNCHANGED pc
    /\ UNCHANGED << impl, nltk, positive_words, negative_words, constructed,
                    call, syllable, files, batch, engine >>

\* "return stop_words" and the end of __init__.
FinishInit ==
    /\ pc = "load_stop"
    /\ stop_index > Len(files.stop)
    /\ constructed' = lexicon
    /\ pc' = "constructed"
    /\ UNCHANGED << impl, nltk, positive_words, negative_words, stop_words,
                    call, syllable, loader, batch, engine >>

NextLoad == LoadPositive \/ LoadNegative \/ LoadStopEntry \/ FinishInit

SpecLoad == InitLoad /\ [][NextLoad]_vars

(***************************************************************************)
(* Construction from word-list files followed by one analyze_text call:    *)
(* the entries of the files are in lower, mixed or upper case.             *)
(***************************************************************************)
ChunkGood == << <<"g","o","o","d">> >>
ChunkMixedGood == << <<"G","o","o","d">> >>
ChunkBad == << <<"b","a","d">> >>
ChunkUpperBad == << <<"B","A","D">> >>
ChunkThe == << <<"t","h","e">> >>

TheText == <<"T","h","e"," ","g","o","o","d"," ","t","h","e"," ","b","a","d",".">>
UpperText == <<"G","O","O","D"," ","b","a","d">>

CaseTexts == {TheText, UpperText}

CasePositiveFiles == {FileOf(<< ChunkGood >>), FileOf(<< ChunkMixedGood >>)}
CaseNegativeFiles == {FileOf(<< ChunkBad >>), FileOf(<< ChunkUpperBad >>)}
CaseStopDirs ==
    { << >>,
      << StopEntry(TRUE, FileOf(<< ChunkThe >>)) >>,
      << StopEntry(TRUE, FileOf(<< ChunkUpper >>)) >>,
      << StopEntry(TRUE, FileOf(<< ChunkComment, ChunkUpper >>)) >> }

InitUse ==
    /\ impl \in Impls
    /\ nltk \in {"ok", "missing"}
    /\ positive_words = {} /\ negative_words = {} /\ stop_words = {}
    /\ constructed = Lexicon({}, {}, {})
    /\ pc = "load_positive"
    /\ \E p \in CasePositiveFiles, n \in CaseNegativeFiles, d \in CaseStopDirs :
           files = [positive |-> p, negative |-> n, stop |-> d]
    /\ stop_index = 0
    /\ NoCall /\ NoSyllable /\ NoBatch /\ NoEngine

\* The caller hands a text to the constructed analyzer.
BeginText ==
    /\ pc = "constructed"
    /\ text' \in CaseTexts
    /\ pc' = "call"
    /\ UNCHANGED << analyzer, result, syllable, loader, batch, engine >>

NextUse ==
    LoadPositive \/ LoadNegative \/ LoadStopEntry \/ FinishInit \/ BeginText \/ AnalyzeText

SpecUse == InitUse /\ [][NextUse]_vars

(***************************************************************************)
(* The batch loops.  Each reads the rows of Input.xlsx in order, appends   *)
(* to "results" and writes output.xlsx:                                    *)
(*   analyze_articles.main            reads articles/<URL_ID>.txt          *)
(*   main.analyze_existing_articles   reads articles/<URL_ID>.txt          *)
(*   main.main, text_analysis.main    extract each URL, save and analyze   *)
(* An article file is missing, not decodable as UTF-8, or holds a text.    *)
(***************************************************************************)
Drivers ==
    {"analyze_articles.main", "main.analyze_existing_articles", "main.main",
     "text_analysis.main"}

ReadingDrivers == {"analyze_articles.main", "main.analyze_existing_articles"}

ImplOf(d) ==
    CASE d = "analyze_articles.main" -> "analyze_articles"
      [] d = "main.analyze_existing_articles" -> "main"
      [] d = "main.main" -> "main"
      [] d = "text_analysis.main" -> "text_analysis"

ArticleOf(t) == [state |-> "file", text |-> t]
MissingArticle == [state |-> "missing", text |-> << >>]
UndecodableArticle == [state |-> "undecodable", text |-> << >>]

ArticleTexts == { << >>, ExampleText, ThinkText }

ArticleFiles == {ArticleOf(t) : t \in ArticleTexts} \cup {MissingArticle, UndecodableArticle}

InputRow(k) == [URL_ID |-> k, URL |-> << "url", k >>]

OutputRow(r, metrics) == [URL_ID |-> r.URL_ID, URL |-> r.URL, metrics |-> metrics]

Init ==
    /\ driver \in Drivers
    /\ impl = ImplOf(driver)
    /\ nltk \in {"ok", "missing"}
    /\ Constructed(ExampleLexicon)
    /\ pc = "rows"
    /\ \E n \in 0..MaxRows :
          /\ input_df = [k \in 1..n |-> InputRow(k)]
          /\ IF driver \in ReadingDrivers
             THEN articles \in [1..n -> ArticleFiles] /\ web = [k \in 1..n |-> << >>]
             ELSE /\ articles = [k \in 1..n |-> MissingArticle]
                  /\ IF driver = "main.main"
                     THEN web = [k \in 1..n |-> << >>]
                     ELSE web \in [1..n -> ArticleTexts]
    /\ row = 1
    /\ results = << >>
    /\ output = NoOutput
    /\ NoFetch
    /\ NoCall /\ NoSyllable /\ NoLoader /\ NoEngine

\* ArticleAnalyzer.analyze_file: None when the file cannot be read or
\* analyze_text raises; otherwise what analyze_text returns.
analyze_file(article, lex, nk) ==
    IF article.state # "file" THEN ReturnedNone
    ELSE LET r == analyze_text("analyze_articles", article.text, lex, nk)
         IN  IF r.kind = "raise" THEN ReturnedNone ELSE r

\* One iteration of the loop of analyze_articles.main: "if metrics:" appends
\* the row, else the row is only reported as failed.
AnalyzeArticlesRow ==
    /\ pc = "rows" /\ driver = "analyze_articles.main"
    /\ row <= Len(input_df)
    /\ LET metrics == analyze_file(articles[row], lexicon, nltk)
       IN  results' = IF metrics.kind = "record"
                      THEN Append(results, OutputRow(input_df[row], metrics.rec))
                      ELSE results
    /\ row' = row + 1
    /\ UNCHANGED << analyzer, pc, call, syllable, loader, driver, input_df,
                    articles, web, output, fetch, engine >>

\* One iteration of the loop of main.analyze_existing_articles: an
\* exception of the read skips the row ("continue").
AnalyzeExistingRow ==
    /\ pc = "rows" /\ driver = "main.analyze_existing_articles"
    /\ row <= Len(input_df)
    /\ results' =
          IF articles[row].state # "file" THEN results
          ELSE LET metrics == analyze_text("main", articles[row].text, lexicon, nltk)
               IN  IF metrics.kind = "record"
                   THEN Append(results, OutputRow(input_df[row], metrics.rec))
                   ELSE results
    /\ row' = row + 1
    /\ UNCHANGED << analyzer, pc, call, syllable, loader, driver, input_df,
                    articles, web, output, fetch, engine >>

\* One iteration of the loop of main.main and text_analysis.main: the
\* extracted text is saved and analyzed, and the row appended.
ExtractAndAnalyzeRow ==
    /\ pc = "rows" /\ driver \in {"main.main", "text_analysis.main"}
    /\ row <= Len(input_df)
    /\ LET article_text == web[row]
           analysis_results == analyze_text(impl, article_text, lexicon, nltk)
       IN  /\ articles' = [articles EXCEPT ![row] = ArticleOf(article_text)]
           /\ results' = Append(results, OutputRow(input_df[row], analysis_results.rec))
    /\ row' = row + 1
    /\ UNCHANGED << analyzer, pc, call, syllable, loader, driver, input_df,
                    web, output, fetch, engine >>

\* After the loop: "pd.DataFrame(results)[columns]" of the two reading loops
\* raises KeyError on an empty list; otherwise the rows are written.
WriteOutput ==
    /\ pc = "rows"
    /\ row > Len(input_df)
    /\ IF driver \in ReadingDrivers /\ results = << >>
       THEN pc' = "raised" /\ UNCHANGED output
       ELSE pc' = "done" /\ output' = results
    /\ UNCHANGED << analyzer, call, syllable, loader, driver, input_df,
                    articles, web, row, results, fetch, engine >>

Next == AnalyzeArticlesRow \/ AnalyzeExistingRow \/ ExtractAndAnalyzeRow \/ WriteOutput

Spec == Init /\ [][Next]_vars

(***************************************************************************)
(* Concurrent callers of one constructed analyzer.  Each caller runs       *)
(* analyze_text on a document in two steps, the tokenizing half (which     *)
(* reads stop_words) and the scoring half (which reads the sentiment       *)
(* sets); the steps of different callers interleave freely.                *)
(***************************************************************************)
EngineDocs == << ThinkText, UsStatesText, HyphenText, << >>, BlankText, ExampleText >>

Idle == [pc |-> "idle"]

Callers == 1..NumWorkers

CallsMade == Cardinality({w \in DOMAIN workers : workers[w].pc # "idle"})

RECURSIVE SumLens(_, _)
SumLens(f, n) == IF n = 0 THEN 0 ELSE Len(f[n]) + SumLens(f, n - 1)

InitEngine ==
    /\ impl \in Impls
    /\ nltk \in {"ok", "missing"}
    /\ \E lex \in {ExampleLexicon, OverlapLexicon} : Constructed(lex)
    /\ pc = "engine"
    /\ docs = SubSeq(EngineDocs, 1, NumDocs)
    /\ workers = [w \in Callers |-> Idle]
    /\ returned = [d \in 1..NumDocs |-> << >>]
    /\ NoCall /\ NoSyllable /\ NoLoader /\ NoBatch

\* The first half of analyze_text(docs[d]) by caller w.
BeginCall(w, d) ==
    /\ pc = "engine"
    /\ workers[w].pc = "idle"
    /\ SumLens(returned, Len(docs)) + CallsMade < MaxCalls
    /\ workers' = [workers EXCEPT ![w] =
                      [pc |-> "scoring", doc |-> d,
                       tok |-> tokenize_stage(impl, docs[d], stop_words, nltk)]]
    /\ UNCHANGED << analyzer, pc, call, syllable, loader, batch, docs, returned >>

\* A variant of the second half that remembers the clean tokens of the
\* document in the shared stop-word set (self.stop_words.update(words)).
FinishCall_RemembersTokens(w) ==
    /\ pc = "engine"
    /\ workers[w].pc = "scoring"
    /\ LET d == workers[w].doc
       IN  returned' = [returned EXCEPT ![d] =
                           Append(@, score_stage(impl, docs[d], workers[w].tok, lexicon))]
    /\ workers' = [workers EXCEPT ![w] = Idle]
    /\ stop_words' = stop_words \cup
                        (IF ~workers[w].tok.early
                         THEN {workers[w].tok.words[i] : i \in 1..Len(workers[w].tok.words)}
                         ELSE {})
    /\ UNCHANGED << impl, nltk, positive_words, negative_words, constructed,
                    pc, call, syllable, loader, batch, docs >>

\* The second half, and the return to the caller.
FinishCall(w) ==
    /\ pc = "engine"
    /\ workers[w].pc = "scoring"
    /\ LET d == workers[w].doc
       IN  returned' = [returned EXCEPT ![d] =
                           Append(@, score_stage(impl, docs[d], workers[w].tok, lexicon))]
    /\ workers' = [workers EXCEPT ![w] = Idle]
    /\ UNCHANGED << analyzer, pc, call, syllable, loader, batch, docs >>

NextEngine ==
    \/ \E w \in Callers, d \in 1..NumDocs : BeginCall(w, d)
    \/ \E w \in Callers : FinishCall(w)

SpecEngine == InitEngine /\ [][NextEngine]_vars

(***************************************************************************)
(* One call of extract_article(url).  The site's answer to the request     *)
(* sent with each user agent is an input: the request raises, the status   *)
(* is an HTTP error, the body contains 'Not Acceptable', or a page with a  *)
(* title and the main content extracted from it (possibly empty).          *)
(* text_analysis.py loops over the user agents; in main.py the function    *)
(* ends after its helper definitions.                                      *)
(***************************************************************************)
NumUserAgents == 3

RequestError == [kind |-> "request_error", title |-> << >>, text |-> << >>]
HttpError == [kind |-> "http_error", title |-> << >>, text |-> << >>]
NotAcceptable == [kind |-> "not_acceptable", title |-> << >>, text |-> << >>]
Page(title, article_text) == [kind |-> "page", title |-> title, text |-> article_text]

PageTitles == { << >>, << "T" >> }
PageTexts == { << >>, << "a" >>, << "b" >> }

Responses ==
    {RequestError, HttpError, NotAcceptable}
        \cup {Page(t, x) : t \in PageTitles, x \in PageTexts}

Extractors == {"main", "text_analysis"}

InitExtract ==
    /\ impl \in Extractors
    /\ nltk = "ok"
    /\ Constructed(ExampleLexicon)
    /\ pc = "extract"
    /\ responses \in [1..NumUserAgents -> Responses]
    /\ fetched = << >>
    /\ extracted = NoOutput
    /\ driver = "none" /\ input_df = << >> /\ articles = << >> /\ web = << >>
    /\ row = 0 /\ results = << >> /\ output = NoOutput
    /\ NoCall /\ NoSyllable /\ NoLoader /\ NoEngine

\* f"{title}\n\n{article_text}"
TitleAndText(title, article_text) == title \o << "\n", "\n" >> \o article_text

\* One iteration of "for user_agent in user_agents" of text_analysis.py: an
\* exception of the request or of raise_for_status and a 'Not Acceptable'
\* body go on to the next user agent, and so does an empty extraction.
FetchAttempt ==
    /\ pc = "extract" /\ impl = "text_analysis"
    /\ Len(fetched) < NumUserAgents
    /\ LET user_agent == Len(fetched) + 1
           response == responses[user_agent]
       IN  /\ fetched' = Append(fetched, user_agent)
           /\ IF response.kind = "page" /\ response.text # << >>
              THEN /\ extracted' = TitleAndText(response.title, response.text)
                   /\ pc' = "extracted"
              ELSE UNCHANGED << extracted, pc >>
    /\ UNCHANGED << analyzer, call, syllable, loader, driver, input_df, articles,
                    web, row, results, output, responses, engine >>

\* The end of the loop of text_analysis.py: return "".
FailExtract ==
    /\ pc = "extract" /\ impl = "text_analysis"
    /\ Len(fetched) = NumUserAgents
    /\ extracted' = << >>
    /\ pc' = "extracted"
    /\ UNCHANGED << analyzer, call, syllable, loader, driver, input_df, articles,
                    web, row, results, output, responses, fetched, engine >>

\* extract_article of main.py: no request is sent, return "".
ReturnWithoutFetch ==
    /\ pc = "extract" /\ impl = "main"
    /\ extracted' = << >>
    /\ pc' = "extracted"
    /\ UNCHANGED << analyzer, call, syllable, loader, driver, input_df, articles,
                    web, row, results, output, responses, fetched, engine >>

NextExtract == FetchAttempt \/ FailExtract \/ ReturnWithoutFetch

SpecExtract == InitExtract /\ [][NextExtract]_vars

(***************************************************************************)
(* Properties of a single analyze_text call (SpecText).                    *)
(***************************************************************************)
IsRecord(r) == r.kind = "record"

\* tokenize_clean: the tokens of the lower-cased text with every character
\* that is neither a word character nor whitespace replaced by a space, less
\* the stop words and the tokens that are not alphanumeric.
CleanTokens(t, stop) ==
    SelectSeq(split(cleaned_text(t)), LAMBDA w : w \notin stop /\ isalnum(w))

\* C2: analyze_text("") returns a record with all 13 fields present and
\* equal to 0; it returns no None and raises nothing.
C2_EmptyTextGivesZeroRecord ==
    (pc = "returned" /\ text = << >>) =>
        /\ IsRecord(result)
        /\ DOMAIN result.rec = Fields
        /\ \A f \in Fields : result.rec[f] = Zero

\* C3: when a step of a document's analysis raises (here: the tokenizers,
\* whose data is not installed), analyze_text returns the all-zero record
\* and no exception reaches the caller.
C3_FailureGivesZeroRecord ==
    (pc = "returned" /\ text # << >> /\ nltk = "missing") =>
        result = Returned(get_empty_metrics)

\* C4: for every text and lexicon the call returns a record with every field
\* present, every field but POLARITY SCORE >= 0, and POLARITY SCORE in
\* [-1, 1] (|positive - negative| <= positive + negative).
C4_FieldsPresentAndInRange ==
    pc = "returned" =>
        /\ IsRecord(result)
        /\ DOMAIN result.rec = Fields
        /\ \A f \in Fields \ {"POLARITY SCORE"} : result.rec[f].n >= 0
        /\ Abs(result.rec["POLARITY SCORE"].n) <= result.rec["POLARITY SCORE"].d
        /\ Abs(result.rec["POSITIVE SCORE"].n - result.rec["NEGATIVE SCORE"].n)
              <= result.rec["POSITIVE SCORE"].n + result.rec["NEGATIVE SCORE"].n

\* The part of C4 about the values: it holds of every record returned.
ReturnedRecordsInRange ==
    (pc = "returned" /\ IsRecord(result)) =>
        /\ DOMAIN result.rec = Fields
        /\ \A f \in Fields \ {"POLARITY SCORE"} : result.rec[f].n >= 0
        /\ Abs(result.rec["POLARITY SCORE"].n) <= result.rec["POLARITY SCORE"].d

\* C5: POSITIVE SCORE and NEGATIVE SCORE are the numbers of clean tokens in
\* the positive and the negative set, the polarity numerator is positive
\* minus negative, WORD COUNT is the number of clean tokens; the example
\* text has the clean tokens john, good, mary, bad, terrible, positive 1,
\* negative 2, polarity -1/(3 + epsilon), word count 5.  Stated for the
\* calls that return a record from working tokenizers.
C5_ScoresCountCleanTokens ==
    (pc = "returned" /\ nltk = "ok" /\ IsRecord(result)) =>
        LET clean == CleanTokens(text, stop_words)
            pos == CountIn(clean, positive_words)
            neg == CountIn(clean, negative_words)
        IN  /\ result.rec["POSITIVE SCORE"] = Int2Frac(pos)
            /\ result.rec["NEGATIVE SCORE"] = Int2Frac(neg)
            /\ result.rec["POLARITY SCORE"] = DivEps(pos - neg, pos + neg)
            /\ result.rec["WORD COUNT"] = Int2Frac(Len(clean))
            /\ (text = ExampleText /\ lexicon = ExampleLexicon) =>
                  /\ Len(clean) = 5
                  /\ result.rec["POSITIVE SCORE"] = Int2Frac(1)
                  /\ result.rec["NEGATIVE SCORE"] = Int2Frac(2)
                  /\ result.rec["POLARITY SCORE"] =
                         Frac(-EpsilonInverse, 3 * EpsilonInverse + 1)
                  /\ result.rec["WORD COUNT"] = Int2Frac(5)

\* The end-to-end example of C5 when the tokenizers are not installed.
C5_ExampleUnderFallback ==
    (pc = "returned" /\ IsRecord(result) /\ impl = "text_analysis"
        /\ text = ExampleText /\ lexicon = ExampleLexicon) =>
        /\ result.rec["POSITIVE SCORE"] = Int2Frac(1)
        /\ result.rec["WORD COUNT"] = Int2Frac(5)

\* The whole-word occurrences of the pronouns (start positions), and the
\* word that follows position j after whitespace.
FollowedByWord(s, j, wd) ==
    \E k \in (j + 1)..(Len(s) + 1) :
        /\ \A m \in j..(k - 1) : IsSpace(s[m])
        /\ MatchesAt(lower(s), k, wd)
        /\ WordBoundary(s, k + Len(wd))

IsUsAt(s, i) ==
    MatchesAt(lower(s), i, <<"u","s">>) /\ WordBoundary(s, i + 2)

ClaimedPronouns(s) ==
    Cardinality({i \in PronounMatches(s) :
        ~ ( /\ IsUsAt(s, i)
            /\ \/ FollowedByWord(s, i + 2, <<"s","t","a","t","e">>)
               \/ FollowedByWord(s, i + 2, <<"s","t","a","t","e","s">>) )})

\* C7: PERSONAL PRONOUNS is the number of case-insensitive whole-word
\* occurrences of I, we, my, ours, us in the original text, less exactly the
\* occurrences of "us" followed by whitespace and the word state or states.
\* Stated for the calls that score at least one clean word.
C7_PronounsExcludeOnlyUsStates ==
    (pc = "returned" /\ nltk = "ok" /\ IsRecord(result)
        /\ result.rec["WORD COUNT"].n > 0) =>
        result.rec["PERSONAL PRONOUNS"] = Int2Frac(ClaimedPronouns(text))

ZeroWhenNoCleanToken ==
    {"PERCENTAGE OF COMPLEX WORDS", "SYLLABLE PER WORD", "AVG WORD LENGTH",
     "SUBJECTIVITY SCORE", "POLARITY SCORE", "WORD COUNT", "COMPLEX WORD COUNT"}

\* C13: for a non-empty text with no clean token the call returns a record
\* (no division by zero ends it) in which PERCENTAGE OF COMPLEX WORDS,
\* SYLLABLE PER WORD, AVG WORD LENGTH, SUBJECTIVITY SCORE, POLARITY SCORE,
\* WORD COUNT and COMPLEX WORD COUNT are 0.  Stated for the calls whose
\* tokenizing produced a token stream: every call of main.py's and
\* text_analysis.py's class, and the calls of ArticleAnalyzer whose
\* tokenizers work.
C13_NoCleanTokenGivesZeros ==
    (pc = "returned" /\ text # << >> /\ CleanTokens(text, stop_words) = << >>
        /\ (nltk = "ok" \/ impl # "analyze_articles")) =>
        /\ IsRecord(result)
        /\ \A f \in ZeroWhenNoCleanToken : result.rec[f] = Zero

\* ArticleAnalyzer went through every formula on an empty list of clean
\* words: the sentence length of the record is not zero.
C13_Witness_FormulasOnNoCleanToken ==
    /\ pc = "returned" /\ impl = "analyze_articles"
    /\ text # << >> /\ CleanTokens(text, stop_words) = << >>
    /\ IsRecord(result)
    /\ result.rec["AVG SENTENCE LENGTH"] # Zero
    /\ result.rec["POLARITY SCORE"] = Zero

\* C14: for a text with at least one clean token AVG SENTENCE LENGTH is the
\* number of raw tokens of the original text (stop words and punctuation
\* tokens included) over the number of sentences, AVG NUMBER OF WORDS PER
\* SENTENCE equals it, and FOG INDEX is 0.4 times the sum of AVG SENTENCE
\* LENGTH and PERCENTAGE OF COMPLEX WORDS.  Stated for the calls that return
\* a record from working tokenizers.
C14_SentenceLengthFromRawTokens ==
    (pc = "returned" /\ nltk = "ok" /\ IsRecord(result)
        /\ CleanTokens(text, stop_words) # << >>) =>
        LET raw_token_count == Len(word_tokenize(text))
            sentence_count == Len(sent_tokenize(text))
        IN  /\ result.rec["AVG SENTENCE LENGTH"] =
                   (IF sentence_count > 0 THEN Frac(raw_token_count, sentence_count)
                    ELSE Zero)
            /\ result.rec["AVG NUMBER OF WORDS PER SENTENCE"] =
                   result.rec["AVG SENTENCE LENGTH"]
            /\ result.rec["FOG INDEX"] =
                   FMul(Frac(2, 5), FAdd(result.rec["AVG SENTENCE LENGTH"],
                                         result.rec["PERCENTAGE OF COMPLEX WORDS"]))

\* C15: for every text and every pair of positive and negative sets, sets
\* that share a word included, SUBJECTIVITY SCORE is at most 1 (POSITIVE
\* SCORE plus NEGATIVE SCORE is at most WORD COUNT) and PERCENTAGE OF
\* COMPLEX WORDS is at most 1.
C15_SubjectivityAtMostOne ==
    (pc = "returned" /\ IsRecord(result)) =>
        /\ result.rec["SUBJECTIVITY SCORE"].n <= result.rec["SUBJECTIVITY SCORE"].d
        /\ result.rec["POSITIVE SCORE"].n + result.rec["NEGATIVE SCORE"].n
               <= result.rec["WORD COUNT"].n
        /\ result.rec["PERCENTAGE OF COMPLEX WORDS"].n
               <= result.rec["PERCENTAGE OF COMPLEX WORDS"].d

(***************************************************************************)
(* Properties of a single _count_syllables call (SpecSyllable).            *)
(***************************************************************************)
\* The maximal runs of vowels of w, by their first positions.
VowelRuns(w) ==
    {i \in 1..Len(w) : w[i] \in vowels /\ ~(i > 1 /\ w[i - 1] \in vowels)}

ClaimedSyllables(wd) ==
    LET l == lower(wd)
        stem == IF Len(l) >= 2 /\ l[Len(l) - 1] = "e" /\ l[Len(l)] \in {"s", "d"}
                THEN SubSeq(l, 1, Len(l) - 2) ELSE l
        runs == Cardinality(VowelRuns(stem))
        adjusted == IF Len(stem) > 0 /\ stem[Len(stem)] = "e" THEN runs - 1 ELSE runs
    IN  IF adjusted < 1 THEN 1 ELSE adjusted

\* C6: syllable_count lower-cases the word, strips a trailing es or ed,
\* counts one per maximal run of vowels, subtracts one if the stripped word
\* ends in e, and returns at least 1; "the" gives 1, "analyze" 3, "boxes" 1.
C6_SyllableCount ==
    pc = "counted" =>
        /\ syllables = ClaimedSyllables(word)
        /\ syllables >= 1
        /\ (word = word_the => syllables = 1)
        /\ (word = word_analyze => syllables = 3)
        /\ (word = word_boxes => syllables = 1)

(***************************************************************************)
(* Properties of the construction (SpecLoad).                              *)
(***************************************************************************)
\* The words of the lines of a file as one encoding decodes all of it.
WordsAsDecoded(file, encoding) == KeptWords(ReadLines(file.chunks, encoding).lines)

DecodesWhole(file, encoding) == ReadLines(file.chunks, encoding).ok

\* The first of the four encodings that decodes the whole file (Latin-1
\* decodes every file).
FirstEncoding(file) ==
    encodings[CHOOSE i \in 1..Len(encodings) :
                 /\ DecodesWhole(file, encodings[i])
                 /\ \A j \in 1..(i - 1) : ~DecodesWhole(file, encodings[j])]

\* C9: loading a word list never raises to the caller: a resource that
\* cannot be read gives the empty set, and an unreadable file of the
\* stop-word directory is skipped.
C9_LoadingNeverRaises ==
    /\ pc # "raised"
    /\ (pc \in {"load_negative", "load_stop", "constructed"}
           /\ files.positive.state # "file") => positive_words = {}
    /\ (pc \in {"load_stop", "constructed"}
           /\ files.negative.state # "file") => negative_words = {}

\* C10: the set a word list loads to holds only the lines as decoded by the
\* first of UTF-8, Latin-1, Windows-1252, ISO-8859-1 that decodes the whole
\* file: nothing read in a failed attempt remains.
C10_OnlyFirstWholeDecoding ==
    /\ (pc \in {"load_negative", "load_stop", "constructed"}
           /\ files.positive.state = "file") =>
          positive_words = WordsAsDecoded(files.positive, FirstEncoding(files.positive))
    /\ (pc \in {"load_stop", "constructed"} /\ files.negative.state = "file") =>
          negative_words = WordsAsDecoded(files.negative, FirstEncoding(files.negative))

\* C12: after construction no word set holds the empty string or an entry
\* of a comment line (a line that begins with ';'), in the positive list, in
\* the negative list and in the set loaded from the stop-word files.
C12_NoBlankOrCommentEntries ==
    pc = "constructed" =>
        \A S \in {positive_words, negative_words, stop_words} :
            \A w \in S : w # << >> /\ ~startswith(w, << ";" >>)

(***************************************************************************)
(* Properties of the batch loops (Spec).                                   *)
(***************************************************************************)
\* C1: the output of a batch over N rows has exactly N rows, the k-th with
\* the URL_ID and URL of the k-th input row, and a row whose article is
\* missing, unreadable or empty carries the all-zero metrics.
C1_OneOutputRowPerInputRow ==
    pc = "done" =>
        /\ Len(output) = Len(input_df)
        /\ \A k \in 1..Len(input_df) :
              /\ output[k].URL_ID = input_df[k].URL_ID
              /\ output[k].URL = input_df[k].URL
              /\ (articles[k].state # "file" \/ articles[k].text = << >>) =>
                     output[k].metrics = get_empty_metrics

(***************************************************************************)
(* Properties of concurrent callers of one analyzer (SpecEngine).          *)
(***************************************************************************)
\* C8: after construction analyze_text never changes the positive, negative
\* or stop-word sets, and every call on a document, whatever calls ran
\* before it or interleave with it, returns what a single call on that
\* document alone returns with the constructed lexicon.
C8_AnalyzeTextIsPure ==
    pc = "engine" =>
        /\ lexicon = constructed
        /\ \A d \in 1..Len(docs) : \A i \in 1..Len(returned[d]) :
              returned[d][i] = analyze_text(impl, docs[d], constructed, nltk)

\* A document analysed twice, another analysed in between or after, and a
\* third call still between its two halves.
C8_Witness_RepeatedAndInterleaved ==
    /\ pc = "engine"
    /\ \E d, e \in 1..Len(docs) :
          /\ d # e
          /\ Len(returned[d]) >= 2
          /\ returned[d][1].kind = "record"
          /\ returned[d][1].rec["WORD COUNT"] # Zero
          /\ Len(returned[e]) >= 1
    /\ \E w \in Callers : workers[w].pc = "scoring"

(***************************************************************************)
(* Properties of construction followed by a call (SpecUse).                *)
(***************************************************************************)
LowerSet(S) == {lower(e) : e \in S}

\* C11: a clean token is a stop word, a positive or a negative word exactly
\* when its lower-cased form equals the lower-cased form of an entry of the
\* list as loaded: an entry THE filters the token the, an entry Good scores
\* the token good.  Stated for the calls that return a record from working
\* tokenizers.
C11_CaseNormalizedMembership ==
    (pc = "returned" /\ nltk = "ok" /\ IsRecord(result)) =>
        LET clean == SelectSeq(split(cleaned_text(text)),
                               LAMBDA w : isalnum(w) /\ w \notin LowerSet(stop_words))
        IN  /\ result.rec["WORD COUNT"] = Int2Frac(Len(clean))
            /\ result.rec["POSITIVE SCORE"] =
                   Int2Frac(CountIn(clean, LowerSet(positive_words)))
            /\ result.rec["NEGATIVE SCORE"] =
                   Int2Frac(CountIn(clean, LowerSet(negative_words)))

(***************************************************************************)
(* Properties of extract_article (SpecExtract).                            *)
(***************************************************************************)
\* The attempts that would give an article: the request succeeds and the
\* extracted content is not empty.
GoodAttempts ==
    {k \in 1..NumUserAgents : responses[k].kind = "page" /\ responses[k].text # << >>}

FirstGoodAttempt == CHOOSE k \in GoodAttempts : \A j \in GoodAttempts : k <= j

\* C16: extract_article sends at most three requests, one per user agent in
\* the listed order; it returns the title and text of the first attempt
\* whose request succeeds with non-empty content, having gone on to the next
\* user agent after each failed attempt, and returns the empty string once
\* all three attempts have failed.
C16_ExtractTriesEachUserAgent ==
    /\ Len(fetched) <= NumUserAgents
    /\ fetched = [k \in 1..Len(fetched) |-> k]
    /\ pc = "extracted" =>
          IF GoodAttempts = {}
          THEN extracted = << >>
          ELSE /\ extracted = TitleAndText(responses[FirstGoodAttempt].title,
                                           responses[FirstGoodAttempt].text)
               /\ Len(fetched) = FirstGoodAttempt

==========================================================================
